---- MODULE Spec2Model ----
(***************************************************************************)
(* Model of careamics-napari's training worker                             *)
(* (careamics_utils/training_worker.py) and of its axes widget             *)
(* (widgets/axes_widget.py).                                               *)
(*                                                                         *)
(* train_worker creates a Queue(10), starts a thread running _train and    *)
(* yields every update it takes from the queue until a terminal update.    *)
(* An invocation of train_worker is a "run"; a later run may receive the   *)
(* CAREamist that an earlier run reported.                                 *)
(***************************************************************************)
EXTENDS Integers, Sequences, FiniteSets, TLC

VARIABLES
    run,             \* number of train_worker invocations started so far
    config_signal,   \* the TrainConfigurationSignal of the current run
    careamist_arg,   \* the careamist argument of the current run (0 = None)
    careamist,       \* _train's local variable careamist (0 = None)
    callback_queue,  \* per CAREamist: the queue its UpdaterCallBack holds
    queues,          \* per run: the content of the Queue(10) it created
    thPc,            \* position of the training thread in _train
    genPc,           \* position of the generator train_worker
    update,          \* train_worker's local variable update
    yielded,         \* updates yielded by the current generator, in order
    puts,            \* updates put during the current run: <<queue, update>>
    epoch,           \* progress updates emitted by the current train call
    raised,          \* exceptions raised in the current training thread
    missing,         \* the missing-input case detected in the current run
    train_args,      \* arguments of the current run's careamist.train call
    train_outcome,   \* "none", "returned" or "raised"
    known_careamist, \* the CAREamist the consumer last received (0 = none)
    text,            \* AxesWidget.text_field.text()
    n_axes,          \* AxesWidget.n_axes
    is_3D,           \* AxesWidget.is_3D
    is_text_valid,   \* AxesWidget.is_text_valid
    style,           \* colour set on the text field by _set_text_color
    use_channels,    \* signal.use_channels
    valid_result,    \* the result of is_valid() when it was the last call
                     \* made on the widget, None otherwise
    v_input,         \* the arguments <<value, pos>> of a validate call
    v_output         \* what that call returned: <<state, value, pos>>

trainVars == <<run, config_signal, careamist_arg, careamist, callback_queue,
               queues, thPc, genPc, update, yielded, puts, epoch, raised,
               missing, train_args, train_outcome, known_careamist>>
axesVars == <<text, n_axes, is_3D, is_text_valid, style, use_channels,
              valid_result>>
validatorVars == <<v_input, v_output>>
vars == <<trainVars, axesVars, validatorVars>>

----------------------------------------------------------------------------
(* Bounds *)

\* number of train_worker invocations
MaxRuns == 2
\* number of progress updates one careamist.train call may emit
MaxProgress == 11
\* length of the texts typed into the axes widget
MaxTextLen == 3
\* length of the texts handed to set_text_field
MaxSetLen == 2

----------------------------------------------------------------------------
(* Program constants and values *)

\* Queue(10)
QueueSize == 10

None == "None"
N2V == "n2v"
CARE == "care"
Algorithms == {N2V, CARE}

Runs == 1..MaxRuns

\* TrainUpdate(type, value)
TrainUpdate(type, value) == [type |-> type, value |-> value]
DONE == "DONE"

\* the generator's variable update before the first get
NoUpdate == TrainUpdate("NONE", None)

NoSignal == [load_from_disk |-> TRUE, algorithm |-> N2V,
             path_train |-> "", path_val |-> "",
             path_train_target |-> "", path_val_target |-> "",
             layer_train |-> None, layer_val |-> None,
             layer_train_target |-> None, layer_val_target |-> None]

\* The signals the user interface can hand over.  The fields of the input
\* mode that is not selected are never read by the data preparation, so they
\* keep their default values here.
DiskSignals ==
    { [NoSignal EXCEPT !.load_from_disk = TRUE, !.algorithm = a,
                       !.path_train = t, !.path_val = v,
                       !.path_train_target = tt, !.path_val_target = vt] :
        a \in Algorithms, t \in {"", "a.tif"}, v \in {"", "a.tif", "b.tif"},
        tt \in {"", "ta.tif"}, vt \in {"", "tb.tif"} }
LayerSignals ==
    { [NoSignal EXCEPT !.load_from_disk = FALSE, !.algorithm = a,
                       !.layer_train = t, !.layer_val = v,
                       !.layer_train_target = tt, !.layer_val_target = vt] :
        a \in Algorithms, t \in {None, "A"}, v \in {None, "A", "B"},
        tt \in {None, "TA"}, vt \in {None, "TB"} }
Signals == DiskSignals \cup LayerSignals

NoArgs == [called |-> FALSE, train_source |-> None, val_source |-> None,
           train_target |-> None, val_target |-> None]

----------------------------------------------------------------------------
(* queue.Queue *)

\* a queue without a maximum size
QueueNeverFull(q) == FALSE

\* Queue.put(block=True) waits while the queue holds maxsize items
QueueFull(q) == Len(q) >= QueueSize

\* Queue.put appends at the tail
QueuePut(q, u) == Append(q, u)

\* a queue that hands out its newest item first
QueueNewest(q) == q[Len(q)]

\* Queue.get(block=True) waits while the queue is empty, then takes the head
QueueHead(q) == Head(q)
QueueRest(q) == Tail(q)

\* the queue created by the current invocation
update_queue == queues[run]

----------------------------------------------------------------------------
(* train_worker *)

\* a loop that breaks on STATE=DONE only
IsDoneOnly(u) == u.type = "STATE" /\ u.value = DONE

\* the condition of the break at the end of the generator's loop
IsTerminal(u) ==
    \/ (u.type = "STATE" /\ u.value = DONE)
    \/ u.type = "EXCEPTION"

ThreadFinished == thPc \in {"ended", "died"}

\* train_worker(config_signal, careamist=c) is called: a queue is created
\* and the thread is started
Start(c) ==
    /\ run < MaxRuns
    /\ run > 0 => (genPc = "stopped" /\ ThreadFinished)
    /\ run' = run + 1
    /\ \E s \in Signals : config_signal' = s
    /\ careamist_arg' = c
    /\ careamist' = c
    /\ queues' = [queues EXCEPT ![run + 1] = <<>>]
    /\ thPc' = "config"
    /\ genPc' = "get"
    /\ update' = NoUpdate
    /\ yielded' = <<>>
    /\ puts' = <<>>
    /\ epoch' = 0
    /\ raised' = {}
    /\ missing' = "none"
    /\ train_args' = NoArgs
    /\ train_outcome' = "none"
    /\ UNCHANGED <<callback_queue, known_careamist, axesVars,
                   validatorVars>>

\* a run for a first training or for the CAREamist last reported
StartWorker == \E c \in {0, known_careamist} : Start(c)

\* a run for a first training
StartFirst == Start(0)

\* update = update_queue.get(block=True)
GenGet ==
    /\ run > 0
    /\ genPc = "get"
    /\ update_queue # <<>>
    /\ update' = QueueHead(update_queue)
    /\ queues' = [queues EXCEPT ![run] = QueueRest(update_queue)]
    /\ genPc' = "yield"
    /\ UNCHANGED <<run, config_signal, careamist_arg, careamist,
                   callback_queue, thPc, yielded, puts, epoch, raised,
                   missing, train_args, train_outcome, known_careamist,
                   axesVars,
                   validatorVars>>

\* yield update, then break on a terminal update
GenYield ==
    /\ genPc = "yield"
    /\ yielded' = Append(yielded, update)
    /\ known_careamist' = IF update.type = "CAREAMIST" THEN update.value
                          ELSE known_careamist
    /\ genPc' = IF IsTerminal(update) THEN "stopped" ELSE "get"
    /\ UNCHANGED <<run, config_signal, careamist_arg, careamist,
                   callback_queue, queues, thPc, update, puts, epoch, raised,
                   missing, train_args, train_outcome, axesVars,
                   validatorVars>>

----------------------------------------------------------------------------
(* _train *)

\* a put of update u on queue number q by the training thread
Put(q, u) ==
    /\ ~QueueFull(queues[q])
    /\ queues' = [queues EXCEPT ![q] = QueuePut(queues[q], u)]
    /\ puts' = Append(puts, <<q, u>>)

\* an exception leaves _train: the thread ends without any further step
Die(e) ==
    /\ thPc' = "died"
    /\ raised' = raised \cup {e}

\* config = create_configuration(config_signal)
CreateConfiguration ==
    /\ thPc = "config"
    /\ \/ /\ thPc' = "create"
          /\ UNCHANGED raised
       \/ Die("ConfigurationError")
    /\ UNCHANGED <<run, config_signal, careamist_arg, careamist,
                   callback_queue, queues, genPc, update, yielded, puts,
                   epoch, missing, train_args, train_outcome,
                   known_careamist, axesVars,
                   validatorVars>>

\* a creation step after which the CAREamist is not registered
CreateWithoutRegister ==
    /\ thPc = "create"
    /\ IF careamist = 0
       THEN \/ /\ careamist' = run
               /\ callback_queue' = [callback_queue EXCEPT ![run] = run]
               /\ thPc' = "format"
               /\ UNCHANGED raised
            \/ /\ Die("CAREamistError")
               /\ UNCHANGED <<careamist, callback_queue>>
       ELSE /\ thPc' = "format"
            /\ UNCHANGED <<careamist, callback_queue, raised>>
    /\ UNCHANGED <<run, config_signal, careamist_arg, queues, genPc, update,
                   yielded, puts, epoch, missing, train_args, train_outcome,
                   known_careamist, axesVars,
                   validatorVars>>

\* if careamist is None: careamist = CAREamist(source=config,
\*     callbacks=[UpdaterCallBack(update_queue)])
\* else: only the number of epochs is updated
CreateCAREamist ==
    /\ thPc = "create"
    /\ IF careamist = 0
       THEN \/ /\ careamist' = run
               /\ callback_queue' = [callback_queue EXCEPT ![run] = run]
               /\ thPc' = "register"
               /\ UNCHANGED raised
            \/ /\ Die("CAREamistError")
               /\ UNCHANGED <<careamist, callback_queue>>
       ELSE /\ thPc' = "register"
            /\ UNCHANGED <<careamist, callback_queue, raised>>
    /\ UNCHANGED <<run, config_signal, careamist_arg, queues, genPc, update,
                   yielded, puts, epoch, missing, train_args, train_outcome,
                   known_careamist, axesVars,
                   validatorVars>>

\* update_queue.put(TrainUpdate(TrainUpdateType.CAREAMIST, careamist))
RegisterCAREamist ==
    /\ thPc = "register"
    /\ Put(run, TrainUpdate("CAREAMIST", careamist))
    /\ thPc' = "format"
    /\ UNCHANGED <<run, config_signal, careamist_arg, careamist,
                   callback_queue, genPc, update, yielded, epoch, raised,
                   missing, train_args, train_outcome, known_careamist,
                   axesVars,
                   validatorVars>>

\* the first missing required input that the data preparation detects
MissingInput(s) ==
    IF s.load_from_disk
    THEN IF s.path_train = "" THEN "path_train"
         ELSE IF s.algorithm # N2V /\ s.path_train_target = ""
              THEN "path_train_target"
              ELSE "none"
    ELSE IF s.layer_train = None THEN "layer_train"
         ELSE IF s.algorithm # N2V /\ s.layer_train_target = None
              THEN "layer_train_target"
              ELSE "none"

\* the ValueError built for a missing input
MissingError(m) ==
    IF m \in {"path_train", "layer_train"}
    THEN "ValueError: Training data path is empty."
    ELSE "ValueError: Training target data path is empty."

\* train_data
TrainData(s) == IF s.load_from_disk THEN s.path_train ELSE s.layer_train

\* val_data before the comparison with train_data
ConfiguredVal(s) ==
    IF s.load_from_disk
    THEN (IF s.path_val # "" THEN s.path_val ELSE None)
    ELSE s.layer_val

\* val_data without the comparison with train_data
ValDataUncompared(s) == ConfiguredVal(s)

\* if train_data == val_data: val_data = None
ValData(s) ==
    IF TrainData(s) = ConfiguredVal(s) THEN None ELSE ConfiguredVal(s)

\* a training target taken whatever the algorithm is
TrainTargetAnyAlgorithm(s) ==
    IF s.load_from_disk THEN s.path_train_target ELSE s.layer_train_target

\* train_data_target
TrainTarget(s) ==
    IF s.algorithm # N2V
    THEN (IF s.load_from_disk THEN s.path_train_target
          ELSE s.layer_train_target)
    ELSE None

\* val_data_target
ValTarget(s) ==
    IF s.algorithm # N2V /\ ValData(s) # None
    THEN IF s.load_from_disk
         THEN (IF s.path_val_target # "" THEN s.path_val_target ELSE None)
         ELSE s.layer_val_target
    ELSE None

\* the keyword arguments of careamist.train
TrainArgs(s) ==
    [called |-> TRUE, train_source |-> TrainData(s),
     val_source |-> ValData(s), train_target |-> TrainTarget(s),
     val_target |-> ValTarget(s)]

\* whether the missing-input branch returns after pushing its exception
ReturnsAfterPush(m) == m # "layer_train"

\* "Format data": from train_data_target = None up to the call of
\* careamist.train or to the push of a ValueError for a missing input.
\* In the in-memory mode train_data and val_data are the layers' arrays,
\* whose comparison in `if train_data == val_data` may raise.
FormatData ==
    /\ thPc = "format"
    /\ LET m == MissingInput(config_signal) IN
       \/ /\ m \in {"path_train", "layer_train"}
          /\ missing' = m
          /\ thPc' = "push"
          /\ UNCHANGED <<raised, train_args>>
       \/ /\ m \notin {"path_train", "layer_train"}
          /\ ~config_signal.load_from_disk
          /\ Die("ValueError: truth value of an array is ambiguous")
          /\ UNCHANGED <<missing, train_args>>
       \/ /\ m \in {"path_train_target", "layer_train_target"}
          /\ missing' = m
          /\ thPc' = "push"
          /\ UNCHANGED <<raised, train_args>>
       \/ /\ m = "none"
          /\ train_args' = TrainArgs(config_signal)
          /\ thPc' = "train"
          /\ UNCHANGED <<raised, missing>>
    /\ UNCHANGED <<run, config_signal, careamist_arg, careamist,
                   callback_queue, queues, genPc, update, yielded, puts,
                   epoch, train_outcome, known_careamist, axesVars,
                   validatorVars>>

\* _push_exception(update_queue, ValueError(...)), followed by `return`
\* in three of the four branches
PushException ==
    /\ thPc = "push"
    /\ Put(run, TrainUpdate("EXCEPTION", MissingError(missing)))
    /\ thPc' = IF ReturnsAfterPush(missing) THEN "ended" ELSE "layer_data"
    /\ UNCHANGED <<run, config_signal, careamist_arg, careamist,
                   callback_queue, genPc, update, yielded, epoch, raised,
                   missing, train_args, train_outcome, known_careamist,
                   axesVars,
                   validatorVars>>

\* train_data = config_signal.layer_train.data with layer_train None
ReadLayerData ==
    /\ thPc = "layer_data"
    /\ Die("AttributeError: 'NoneType' object has no attribute 'data'")
    /\ UNCHANGED <<run, config_signal, careamist_arg, careamist,
                   callback_queue, queues, genPc, update, yielded, puts,
                   epoch, missing, train_args, train_outcome,
                   known_careamist, axesVars,
                   validatorVars>>

\* a callback shared by all CAREamists, holding the first queue ever made
SharedCallbackTarget == CHOOSE r \in Runs : \A q \in Runs : r <= q

\* the queue on which the CAREamist's UpdaterCallBack puts its updates
CallbackTarget == callback_queue[careamist]

\* careamist.train is running and calls its UpdaterCallBack
TrainEmit ==
    /\ thPc = "train"
    /\ epoch < MaxProgress
    /\ thPc' = "callback"
    /\ UNCHANGED <<run, config_signal, careamist_arg, careamist,
                   callback_queue, queues, genPc, update, yielded, puts,
                   epoch, raised, missing, train_args, train_outcome,
                   known_careamist, axesVars,
                   validatorVars>>

\* the UpdaterCallBack puts a progress update on its queue and hands
\* control back to careamist.train
TrainProgress ==
    /\ thPc = "callback"
    /\ Put(CallbackTarget, TrainUpdate("EPOCH", epoch + 1))
    /\ epoch' = epoch + 1
    /\ thPc' = "train"
    /\ UNCHANGED <<run, config_signal, careamist_arg, careamist,
                   callback_queue, genPc, update, yielded, raised,
                   missing, train_args, train_outcome, known_careamist,
                   axesVars,
                   validatorVars>>

\* careamist.train returns
TrainReturn ==
    /\ thPc = "train"
    /\ train_outcome' = "returned"
    /\ thPc' = "put_done"
    /\ UNCHANGED <<run, config_signal, careamist_arg, careamist,
                   callback_queue, queues, genPc, update, yielded, puts,
                   epoch, raised, missing, train_args, known_careamist,
                   axesVars,
                   validatorVars>>

\* careamist.train raises: except Exception as e
TrainRaise ==
    /\ thPc = "train"
    /\ train_outcome' = "raised"
    /\ raised' = raised \cup {"TrainError"}
    /\ thPc' = "put_exception"
    /\ UNCHANGED <<run, config_signal, careamist_arg, careamist,
                   callback_queue, queues, genPc, update, yielded, puts,
                   epoch, missing, train_args, known_careamist, axesVars,
                   validatorVars>>

\* update_queue.put(TrainUpdate(TrainUpdateType.EXCEPTION, e))
PutTrainException ==
    /\ thPc = "put_exception"
    /\ Put(run, TrainUpdate("EXCEPTION", "TrainError"))
    /\ thPc' = "put_done"
    /\ UNCHANGED <<run, config_signal, careamist_arg, careamist,
                   callback_queue, genPc, update, yielded, epoch, raised,
                   missing, train_args, train_outcome, known_careamist,
                   axesVars,
                   validatorVars>>

\* update_queue.put(TrainUpdate(TrainUpdateType.STATE, TrainingState.DONE))
PutDone ==
    /\ thPc = "put_done"
    /\ Put(run, TrainUpdate("STATE", DONE))
    /\ thPc' = "ended"
    /\ UNCHANGED <<run, config_signal, careamist_arg, careamist,
                   callback_queue, genPc, update, yielded, epoch, raised,
                   missing, train_args, train_outcome, known_careamist,
                   axesVars,
                   validatorVars>>

----------------------------------------------------------------------------
(* careamics_napari.utils: REF_AXES, are_axes_valid, filter_dimensions *)

\* the accepted axes letters S(ample), T(ime), C(hannel), Z, Y and X
REF_AXES == <<"S", "T", "C", "Z", "Y", "X">>

\* the characters a text may be made of in this model
Alphabet == {"C", "Z", "Y", "X", "y"}

Range(f) == { f[i] : i \in DOMAIN f }

\* str.upper() on one character
UpperChar(c) ==
    CASE c = "s" -> "S" [] c = "t" -> "T" [] c = "c" -> "C"
      [] c = "z" -> "Z" [] c = "y" -> "Y" [] c = "x" -> "X"
      [] OTHER -> c

\* str.upper()
Upper(t) == [i \in 1..Len(t) |-> UpperChar(t[i])]

\* substring test `a + b in t` for two characters
HasPair(t, a, b) == \E i \in 1..(Len(t) - 1) : t[i] = a /\ t[i + 1] = b

NoRepeat(t) == \A i, j \in 1..Len(t) : t[i] = t[j] => i = j

\* are_axes_valid(axes): every character is an accepted axis, none is
\* repeated, and the mandatory Y and X are next to each other
are_axes_valid(axes) ==
    LET u == Upper(axes) IN
    /\ Range(u) \subseteq Range(REF_AXES)
    /\ NoRepeat(u)
    /\ (HasPair(u, "Y", "X") \/ HasPair(u, "X", "Y"))

\* p in filter_dimensions(n, is_3D): the orders of n distinct accepted axes
\* (without Z in 2D, with Z in 3D) that keep Y and X together
InFilterDimensions(p, n, b) ==
    LET allowed == IF b THEN Range(REF_AXES) ELSE Range(REF_AXES) \ {"Z"} IN
    /\ n <= Cardinality(allowed)
    /\ Len(p) = n
    /\ Range(p) \subseteq allowed
    /\ NoRepeat(p)
    /\ (HasPair(p, "Y", "X") \/ HasPair(p, "X", "Y"))
    /\ b => "Z" \in Range(p)

----------------------------------------------------------------------------
(* LettersValidator *)

\* LettersValidator.validate(value, pos): the state it returns
validate(value) ==
    IF Len(value) > 0
    THEN (IF value[Len(value)] \in Range(REF_AXES) THEN "Acceptable"
          ELSE "Invalid")
    ELSE "Intermediate"

\* LettersValidator.validate(value, pos): the tuple it returns
LettersValidate(value, pos) == <<validate(value), value, pos>>

\* no call of validate has returned yet
NotReturned == <<"none", <<>>, 0>>

\* validate(value, pos) is called with the arguments at hand and returns
ValidateCall ==
    /\ v_output = NotReturned
    /\ v_output' = LettersValidate(v_input[1], v_input[2])
    /\ UNCHANGED <<v_input, trainVars, axesVars>>

\* the line edit hands the validator another text and cursor position
ValidateInput(value, pos) ==
    /\ v_output # NotReturned
    /\ v_input' = <<value, pos>>
    /\ v_output' = NotReturned
    /\ UNCHANGED <<trainVars, axesVars>>

----------------------------------------------------------------------------
(* AxesWidget *)

\* text_field.setMaxLength(6)
MaxLength == 6

VALID == "VALID"
UNRECOGNIZED == "UNRECOGNIZED"
NOT_ACCEPTED == "NOT_ACCEPTED"

\* the highlight _validate_text chooses
Highlight(axes, n, b) ==
    IF are_axes_valid(axes)
    THEN (IF InFilterDimensions(Upper(axes), n, b) THEN VALID
          ELSE NOT_ACCEPTED)
    ELSE UNRECOGNIZED

\* the style sheet _set_text_color sets
Colour(h) ==
    IF h = UNRECOGNIZED THEN "red"
    ELSE IF h = NOT_ACCEPTED THEN "orange"
    ELSE "white"

\* _validate_text with _set_text_color, on text t, n axes and 3D flag b
ValidateText(t, n, b) ==
    /\ is_text_valid' = (Highlight(t, n, b) = VALID)
    /\ style' = Colour(Highlight(t, n, b))

\* _axes_changed, run after _validate_text has set is_text_valid
AxesChanged(t) ==
    IF is_text_valid'
    THEN use_channels' = ("C" \in Range(t))
    ELSE UNCHANGED use_channels

\* get_default_text: defaults[self.n_axes - 2], where index -1 is the last
get_default_text(n, b) ==
    LET defaults == IF b
                    THEN << <<"Y", "X">>, <<"Z", "Y", "X">>,
                            <<"S", "Z", "Y", "X">>,
                            <<"S", "T", "Z", "Y", "X">>,
                            <<"S", "T", "C", "Z", "Y", "X">> >>
                    ELSE << <<"Y", "X">>, <<"S", "Y", "X">>,
                            <<"S", "T", "Y", "X">>,
                            <<"S", "T", "C", "Y", "X">>,
                            <<"S", "T", "C", "?", "Y", "X">> >>
        i == n - 2
    IN  IF i >= 0 THEN defaults[i + 1] ELSE defaults[Len(defaults) + i + 1]

\* the text field's textChanged signal: _validate_text, then _axes_changed
TextChanged(t) ==
    /\ text' = t
    /\ ValidateText(t, n_axes, is_3D)
    /\ AxesChanged(t)

\* QLineEdit.setText: the text is cut at the maximum length; textChanged is
\* emitted only if the text differs
SetText(t) ==
    LET cut == SubSeq(t, 1, IF Len(t) > MaxLength THEN MaxLength ELSE Len(t))
    IN  IF cut = text
        THEN UNCHANGED <<text, is_text_valid, style, use_channels>>
        ELSE TextChanged(cut)

\* set_text_field(text)
set_text_field(t) ==
    /\ SetText(t)
    /\ valid_result' = None
    /\ UNCHANGED <<n_axes, is_3D, trainVars,
                   validatorVars>>

\* a change of the number of axes without a new validation
SetAxesNumberOnly(n) ==
    /\ n_axes' = n
    /\ valid_result' = None
    /\ UNCHANGED <<text, is_3D, is_text_valid, style, use_channels,
                   trainVars,
                   validatorVars>>

\* update_axes_number(n)
update_axes_number(n) ==
    /\ n_axes' = n
    /\ ValidateText(text, n, is_3D)
    /\ valid_result' = None
    /\ UNCHANGED <<text, is_3D, use_channels, trainVars,
                   validatorVars>>

\* update_is_3D(is_3D)
update_is_3D(b) ==
    /\ is_3D' = b
    /\ ValidateText(text, n_axes, b)
    /\ valid_result' = None
    /\ UNCHANGED <<text, n_axes, use_channels, trainVars,
                   validatorVars>>

\* a Python bool as a returned value
PyBool(b) == IF b THEN "True" ELSE "False"

\* is_valid()
is_valid ==
    /\ ValidateText(text, n_axes, is_3D)
    /\ valid_result' = PyBool(is_text_valid')
    /\ UNCHANGED <<text, n_axes, is_3D, use_channels, trainVars,
                   validatorVars>>

\* the texts one keystroke can make of t: a character inserted or removed
Edits(t) ==
    { SubSeq(t, 1, i) \o <<c>> \o SubSeq(t, i + 1, Len(t)) :
        i \in 0..Len(t), c \in Alphabet }
    \cup
    { SubSeq(t, 1, i - 1) \o SubSeq(t, i + 1, Len(t)) : i \in 1..Len(t) }

\* the user edits the text field: the line edit takes the new text only if
\* it fits the maximum length and the validator does not call it Invalid
EditText(t) ==
    /\ Len(t) <= MaxLength
    /\ validate(t) # "Invalid"
    /\ TextChanged(t)
    /\ valid_result' = None
    /\ UNCHANGED <<n_axes, is_3D, trainVars,
                   validatorVars>>

----------------------------------------------------------------------------
(* Specification of the training worker *)

AxesIdle ==
    /\ text = <<>>
    /\ n_axes = 3
    /\ is_3D = FALSE
    /\ is_text_valid = TRUE
    /\ style = "none"
    /\ use_channels = FALSE
    /\ valid_result = None

ValidatorIdle ==
    /\ v_input = <<<<>>, 0>>
    /\ v_output = NotReturned

TrainIdle ==
    /\ run = 0
    /\ config_signal = NoSignal
    /\ careamist_arg = 0
    /\ careamist = 0
    /\ callback_queue = [c \in Runs |-> 0]
    /\ queues = [r \in Runs |-> <<>>]
    /\ thPc = "idle"
    /\ genPc = "idle"
    /\ update = NoUpdate
    /\ yielded = <<>>
    /\ puts = <<>>
    /\ epoch = 0
    /\ raised = {}
    /\ missing = "none"
    /\ train_args = NoArgs
    /\ train_outcome = "none"
    /\ known_careamist = 0

Init == TrainIdle /\ AxesIdle /\ ValidatorIdle

Next ==
    \/ StartWorker
    \/ GenGet
    \/ GenYield
    \/ CreateConfiguration
    \/ CreateCAREamist
    \/ RegisterCAREamist
    \/ FormatData
    \/ PushException
    \/ ReadLayerData
    \/ TrainEmit
    \/ TrainProgress
    \/ TrainReturn
    \/ TrainRaise
    \/ PutTrainException
    \/ PutDone

Spec == Init /\ [][Next]_vars

\* the steps the training thread takes in the code of _train and of the
\* callback
ThreadStep ==
    \/ CreateConfiguration
    \/ CreateCAREamist
    \/ RegisterCAREamist
    \/ FormatData
    \/ PushException
    \/ ReadLayerData
    \/ TrainProgress
    \/ PutTrainException
    \/ PutDone

\* the steps of careamist.train itself
TrainStep == TrainEmit \/ TrainReturn \/ TrainRaise

\* the training worker in first trainings only
NextFirst ==
    \/ StartFirst
    \/ GenGet
    \/ GenYield
    \/ ThreadStep
    \/ TrainStep

\* First trainings in which the thread is scheduled whenever it can take a
\* step, careamist.train goes on until it returns or raises, and the
\* consumer keeps iterating the generator until it stops.  Nothing obliges
\* the user to start a run.
FirstSpec ==
    /\ Init
    /\ [][NextFirst]_vars
    /\ WF_vars(ThreadStep)
    /\ WF_vars(TrainStep)
    /\ WF_vars(GenGet)
    /\ WF_vars(GenYield)

----------------------------------------------------------------------------
(* Specification of the axes widget *)

\* numbers of axes the constructor accepts: assert 0 < n_axes <= 6
AxesNumbers == 1..6

\* texts handed to set_text_field
Texts == UNION { [1..k -> Alphabet] : k \in 0..MaxSetLen }

\* AxesWidget.__init__(signal, n_axes, is_3D)
AxesInit ==
    \E n \in AxesNumbers, b \in BOOLEAN :
        /\ n_axes = n
        /\ is_3D = b
        /\ text = get_default_text(n, b)
        /\ is_text_valid = (Highlight(text, n, b) = VALID)
        /\ style = Colour(Highlight(text, n, b))
        /\ use_channels \in BOOLEAN
        /\ valid_result = None

InitAxes == TrainIdle /\ AxesInit /\ ValidatorIdle

NextAxes ==
    \/ \E t \in Edits(text) : Len(t) <= MaxTextLen /\ EditText(t)
    \/ \E t \in Texts : set_text_field(t)
    \/ \E n \in AxesNumbers : update_axes_number(n)
    \/ \E b \in BOOLEAN : update_is_3D(b)
    \/ is_valid

SpecAxes == InitAxes /\ [][NextAxes]_vars

----------------------------------------------------------------------------
(* Specification of the validator *)

\* the texts and cursor positions the validator is called with
ValidatorInputs ==
    { <<t, pos>> : t \in UNION { [1..k -> Alphabet] : k \in 0..MaxTextLen },
                   pos \in 0..MaxTextLen }

InitValidator ==
    /\ TrainIdle
    /\ AxesIdle
    /\ v_input \in { i \in ValidatorInputs : i[2] <= Len(i[1]) }
    /\ v_output = NotReturned

NextValidator ==
    \/ ValidateCall
    \/ \E i \in ValidatorInputs : i[2] <= Len(i[1]) /\ ValidateInput(i[1], i[2])

SpecValidator == InitValidator /\ [][NextValidator]_vars

----------------------------------------------------------------------------
(* Properties of the training worker *)

\* the updates put on the current invocation's queue, in order
PutOnCurrent(p) == p[1] = run
CurrentPuts ==
    LET sel == SelectSeq(puts, PutOnCurrent)
    IN  [i \in 1..Len(sel) |-> sel[i][2]]

\* the number of updates the generator has taken from its queue
Taken == Len(yielded) + (IF genPc = "yield" THEN 1 ELSE 0)

UpdateDone == TrainUpdate("STATE", DONE)
IsException(u) == u.type = "EXCEPTION"

\* C1: every run reports a final status: once the training thread is over,
\* the generator has a terminal update to yield or has stopped; it is never
\* left waiting in update_queue.get on a queue nobody will fill.
C1_FinalStatusReported ==
    (run > 0 /\ ThreadFinished) =>
        \/ genPc = "stopped"
        \/ genPc = "yield" /\ IsTerminal(update)
        \/ \E i \in 1..Len(update_queue) : IsTerminal(update_queue[i])

\* C2: every exception raised in the training thread is forwarded: when the
\* thread is over, each exception it raised was put on update_queue as an
\* EXCEPTION update.
C2_ExceptionsForwarded ==
    ThreadFinished =>
        \A e \in raised :
            \E i \in 1..Len(CurrentPuts) :
                CurrentPuts[i] = TrainUpdate("EXCEPTION", e)

\* C3: the updates yielded are the updates put on update_queue, in the order
\* of the puts, without loss or duplication, up to and including the first
\* terminal update, after which (and only after which) the generator stops.
C3_StreamInOrder ==
    /\ Len(yielded) <= Len(CurrentPuts)
    /\ \A i \in 1..Len(yielded) : yielded[i] = CurrentPuts[i]
    /\ \A i \in 1..Len(yielded) :
          (i < Len(yielded)) => ~IsTerminal(CurrentPuts[i])
    /\ genPc = "stopped" <=>
          (yielded # <<>> /\ IsTerminal(CurrentPuts[Len(yielded)]))

C3_Witness ==
    /\ genPc = "stopped"
    /\ Len(yielded) >= 4
    /\ Len(CurrentPuts) > Len(yielded)

\* C4: a queue never holds more than 10 updates, and no update put on the
\* current queue is dropped or overwritten: the queue holds exactly the
\* updates put and not yet taken, so a put on a full queue has to wait.
C4_BoundedQueue ==
    /\ \A r \in Runs : Len(queues[r]) <= 10
    /\ run > 0 =>
          update_queue = SubSeq(CurrentPuts, Taken + 1, Len(CurrentPuts))

C4_Witness ==
    /\ run > 0
    /\ Len(update_queue) = 10
    /\ thPc \in {"put_done", "put_exception"}

\* C5: the progress updates of a continued training are put on the queue of
\* the current invocation.
C5_ProgressOnCurrentQueue ==
    \A i \in 1..Len(puts) :
        puts[i][2].type = "EPOCH" => puts[i][1] = run

\* C6: a missing required input stops the run where it is detected: one
\* EXCEPTION update is put, then _train returns without raising, without
\* calling careamist.train and without putting STATE=DONE.
C6_MissingInputStops ==
    (missing # "none" /\ ThreadFinished) =>
        /\ thPc = "ended"
        /\ raised = {}
        /\ ~train_args.called
        /\ Cardinality({i \in 1..Len(puts) : IsException(puts[i][2])}) = 1
        /\ \A i \in 1..Len(puts) : puts[i][2] # UpdateDone

\* C8: STATE=DONE is yielded only when careamist.train was called and
\* returned, with no EXCEPTION yielded before it; after careamist.train
\* raised, DONE is never yielded.
C8_DoneMeansSuccess ==
    /\ (\E i \in 1..Len(yielded) : yielded[i] = UpdateDone) =>
          /\ train_args.called
          /\ train_outcome = "returned"
          /\ \A j \in 1..Len(yielded) : ~IsException(yielded[j])
    /\ train_outcome = "raised" =>
          \A i \in 1..Len(yielded) : yielded[i] # UpdateDone

C8_Witness ==
    /\ genPc = "stopped"
    /\ yielded[Len(yielded)] = UpdateDone
    /\ Len(yielded) >= 3

\* C9: the first update put in a run is the CAREAMIST update, it is the only
\* one of the run, it is put on the current queue and so is yielded first,
\* and it carries the instance that was passed in, if one was.
C9_CareamistFirst ==
    /\ puts # <<>> =>
          /\ puts[1][1] = run
          /\ puts[1][2].type = "CAREAMIST"
          /\ careamist_arg # 0 => puts[1][2].value = careamist_arg
          /\ \A i \in 2..Len(puts) : puts[i][2].type # "CAREAMIST"
    /\ yielded # <<>> => yielded[1].type = "CAREAMIST"

C9_Witness ==
    /\ careamist_arg # 0
    /\ missing # "none"
    /\ Len(puts) = 2
    /\ Len(yielded) = 2

\* C10: the training thread puts at most one terminal update per run, so
\* nothing is left on the queue once the generator has stopped and the
\* thread is over.
C10_OneTerminalUpdate ==
    /\ Cardinality({i \in 1..Len(puts) : IsTerminal(puts[i][2])}) <= 1
    /\ (genPc = "stopped" /\ ThreadFinished) => update_queue = <<>>

\* C11: in a first training (no careamist passed in) the training thread
\* always comes to its end, whether by returning or by an uncaught
\* exception: no put of it waits forever on a full queue.
C11_ThreadEnds ==
    (run > 0 /\ careamist_arg = 0 /\ ~ThreadFinished) ~> ThreadFinished

C11_Witness ==
    /\ careamist_arg = 0
    /\ thPc = "ended"
    /\ genPc = "stopped"
    /\ train_outcome = "raised"
    /\ epoch >= 10
    /\ update_queue = <<UpdateDone>>

\* what the signal of the current run configures for the selected input mode
SignalTrain ==
    IF config_signal.load_from_disk THEN config_signal.path_train
    ELSE config_signal.layer_train
SignalVal ==
    IF config_signal.load_from_disk THEN config_signal.path_val
    ELSE config_signal.layer_val
SignalTrainTarget ==
    IF config_signal.load_from_disk THEN config_signal.path_train_target
    ELSE config_signal.layer_train_target
SignalValTarget ==
    IF config_signal.load_from_disk THEN config_signal.path_val_target
    ELSE config_signal.layer_val_target
\* the value that stands for "not configured" in the selected input mode
SignalEmpty == IF config_signal.load_from_disk THEN "" ELSE None

\* C12: whenever careamist.train is called, val_source is None if no
\* validation data is configured or if it equals the training data, and is
\* the configured validation data otherwise; val_source never equals
\* train_source, and val_target is None when val_source is.
C12_ValidationDistinct ==
    train_args.called =>
        /\ train_args.train_source = SignalTrain
        /\ train_args.val_source =
              (IF SignalVal = SignalEmpty \/ SignalVal = SignalTrain
               THEN None ELSE SignalVal)
        /\ train_args.val_source # train_args.train_source
        /\ train_args.val_source = None => train_args.val_target = None

C12_Witness ==
    /\ train_args.called
    /\ SignalVal = SignalTrain
    /\ SignalValTarget # SignalEmpty
    /\ config_signal.algorithm # N2V
    /\ train_args.val_source = None

\* C13: whenever careamist.train is called, with N2V both targets are None
\* whatever the signal holds; with another algorithm train_target is the
\* configured, non-empty training target, and val_target is the configured
\* validation target if val_source is not None and a validation target is
\* configured, None otherwise.
C13_TargetsOnlySupervised ==
    train_args.called =>
        IF config_signal.algorithm = N2V
        THEN /\ train_args.train_target = None
             /\ train_args.val_target = None
        ELSE /\ train_args.train_target = SignalTrainTarget
             /\ train_args.train_target # SignalEmpty
             /\ train_args.val_target =
                   (IF train_args.val_source # None
                       /\ SignalValTarget # SignalEmpty
                    THEN SignalValTarget ELSE None)

C13_Witness ==
    /\ train_args.called
    /\ config_signal.algorithm = N2V
    /\ SignalTrainTarget # SignalEmpty
    /\ SignalValTarget # SignalEmpty
    /\ SignalVal \notin {SignalEmpty, SignalTrain}
    /\ train_outcome = "returned"

----------------------------------------------------------------------------
(* Properties of the axes widget *)

Recognized == are_axes_valid(text)
Accepted == InFilterDimensions(Upper(text), n_axes, is_3D)

\* C7: the highlight follows the text, the number of axes and the 3D flag:
\* red iff the axes are not recognized, orange iff they are recognized but
\* not among the accepted orders, white otherwise; is_text_valid and the
\* result of is_valid() are true iff the highlight is the valid one.
C7_HighlightTracksText ==
    /\ style = "red" <=> ~Recognized
    /\ style = "orange" <=> (Recognized /\ ~Accepted)
    /\ style = "white" <=> (Recognized /\ Accepted)
    /\ is_text_valid <=> style = "white"
    /\ valid_result # None => (valid_result = "True" <=> style = "white")

C7_Witness ==
    /\ style = "orange"
    /\ valid_result = "False"
    /\ Len(text) = 3
    /\ "y" \in Range(text)

\* C14: whenever the text is valid, signal.use_channels tells whether the
\* axes contain the channel axis C.
C14_ChannelFlagFollowsAxes ==
    is_text_valid => (use_channels <=> "C" \in Range(Upper(text)))

----------------------------------------------------------------------------
(* Properties of the validator *)

\* C15: validate returns Acceptable only for a non-empty string made of the
\* accepted axes letters, Intermediate exactly for the empty string and
\* Invalid otherwise, and returns value and pos as they were given.
C15_ValidatorAcceptsLetters ==
    v_output # NotReturned =>
        LET value == v_input[1]
            letters == value # <<>> /\ Range(value) \subseteq Range(REF_AXES)
        IN  /\ v_output[1] = "Acceptable" => letters
            /\ v_output[1] = "Intermediate" <=> value = <<>>
            /\ v_output[1] = "Invalid" <=> (value # <<>> /\ ~letters)
            /\ v_output[2] = value
            /\ v_output[3] = v_input[2]

====
